---- MODULE Spec2Model ----
(***************************************************************************)
(* A model of src/tic_tac_toe.py: the Board class (grid, turn index,       *)
(* filled count, win/draw detection) and the TicTacToe session that drives *)
(* it from text typed at its prompts.                                      *)
(*                                                                         *)
(* A text is a sequence of one-character strings, so that str.lower(),     *)
(* str.strip() and len() are computed as Python computes them.             *)
(***************************************************************************)
EXTENDS Integers, Sequences, FiniteSets, TLC

VARIABLES
    grid,      \* Board._grid: grid[row][col], rows and columns 0..2
    turn,      \* Board._turn
    filled,    \* Board._filled_squares
    bplayers,  \* Board._players; <<>> while the session has created no Board
    players,   \* the local list `players` of TicTacToe._get_players
    pc,        \* the prompt the session waits at, or "exit"
    ev,        \* history: what the last prompt (or direct call) did
    nmoves,    \* history: Board.move calls completed since creation / reset
    terminal   \* history: Board.move raised Win or GameOver since creation / reset

vars == <<grid, turn, filled, bplayers, players, pc, ev, nmoves, terminal>>

----------------------------------------------------------------------------
(* Bounds of the model. *)

\* Largest number of blanks typed around a text at a prompt.
MaxPad == 1

\* Direct calls of Board.move stop once the filled count has reached this.
MaxFilled == 5

\* Direct calls of Board.move take row and column in -1..MaxCoord.
MaxCoord == 3

----------------------------------------------------------------------------
(* Texts. *)

EMPTY == " "

Whitespace == {" ", "\t", "\n"}

LowerChar(c) ==
    CASE c = "Q" -> "q"
      [] c = "U" -> "u"
      [] c = "I" -> "i"
      [] c = "T" -> "t"
      [] c = "F" -> "f"
      [] c = "Y" -> "y"
      [] c = "N" -> "n"
      [] OTHER -> c

Lower(s) == [i \in 1..Len(s) |-> LowerChar(s[i])]

RECURSIVE LStrip(_)
LStrip(s) ==
    IF s /= <<>> /\ Head(s) \in Whitespace THEN LStrip(Tail(s)) ELSE s

RECURSIVE RStrip(_)
RStrip(s) ==
    IF s /= <<>> /\ s[Len(s)] \in Whitespace
    THEN RStrip(SubSeq(s, 1, Len(s) - 1))
    ELSE s

Strip(s) == RStrip(LStrip(s))

\* input(...).lower().strip()
Normalize(raw) == Strip(Lower(raw))

QUIT == <<"q", "u", "i", "t">>
FF == <<"f", "f">>
YES == <<"y">>
NO == <<"n">>

Pad(n) == [i \in 1..n |-> " "]

Padded(cores) ==
    UNION {UNION {{Pad(i) \o c \o Pad(j) : j \in 0..(MaxPad - i)} :
                  i \in 0..MaxPad} : c \in cores}

Digits == {"1", "2", "3", "4", "5", "6", "7", "8", "9"}

\* What the players type at "Enter position: ".
MoveTexts ==
    {<<d>> : d \in Digits} \cup {QUIT, FF, <<"0">>}
    \cup Padded({<<"5">>})

\* What the players type at "Enter mark (player i): ".
MarkTexts == {<<"X">>, <<"O">>, <<" ">>, <<>>, <<"X", "O">>, QUIT}

\* What the players type at "Play again? [y/n]: " and "Rematch? [y/n]: ".
ReplayTexts ==
    {YES, NO, QUIT, <<"x">>} \cup Padded({<<"Y">>})

----------------------------------------------------------------------------
(* Board. *)

Idx == 0..2

Positions == Idx \X Idx

_AXES ==
    { {<<0, 0>>, <<0, 1>>, <<0, 2>>},
      {<<1, 0>>, <<1, 1>>, <<1, 2>>},
      {<<2, 0>>, <<2, 1>>, <<2, 2>>},
      {<<0, 0>>, <<1, 0>>, <<2, 0>>},
      {<<0, 1>>, <<1, 1>>, <<2, 1>>},
      {<<0, 2>>, <<1, 2>>, <<2, 2>>},
      {<<0, 0>>, <<1, 1>>, <<2, 2>>},
      {<<2, 0>>, <<1, 1>>, <<0, 2>>} }

EmptyGrid == [r \in Idx |-> [c \in Idx |-> EMPTY]]

\* Python's list indexing of a list of length 3: -3..-1 count from the end,
\* anything else outside 0..2 raises IndexError.
InIndexRange(i) == i \in -3..2

ListIndex(i) == IF i < 0 THEN i + 3 ELSE i

Cell(g, x) == g[x[1]][x[2]]

\* Board._check_win with the "row contains different values" test left out.
check_win_any_full_axis(g, pos) ==
    \E axis \in _AXES :
        /\ pos \in axis
        /\ Cardinality({x \in axis : Cell(g, x) /= EMPTY}) = 3

\* Board._check_win looking at rows and columns only.
check_win_no_diagonals(g, pos) ==
    \E axis \in _AXES :
        /\ pos \in axis
        /\ (\E r \in Idx : \A x \in axis : x[1] = r)
              \/ (\E c \in Idx : \A x \in axis : x[2] = c)
        /\ Cardinality({x \in axis : Cell(g, x) /= EMPTY}) = 3
        /\ Cardinality({Cell(g, x) : x \in axis}) = 1

\* Board._check_win: some axis containing pos is filled, with one value.
check_win(g, pos) ==
    \E axis \in _AXES :
        /\ pos \in axis
        /\ LET vals == {x \in axis : Cell(g, x) /= EMPTY}
           IN  /\ ~(Cardinality(vals) < 3)
               /\ ~(Cardinality({Cell(g, x) : x \in vals}) > 1)

\* The win check of Board.move starting one move late.
WinCheckFromLate == 5 + 1

\* The filled count from which Board.move checks for a win.
WinCheckFrom == 5

\* GameOver raised one move early.
FullCountEarly == 9 - 1

\* The filled count at which Board.move raises GameOver.
FullCount == 9

\* The filled count left as it is.
incrementLost(f) == f

\* self._filled_squares += 1
increment(f) == f + 1

\* The turn index handed back to the first player.
NextTurnFirst(t) == 0

\* The turn index left as it is.
NextTurnStuck(t) == t

\* int(not self._turn)
NextTurn(t) == IF t = 0 THEN 1 ELSE 0

\* Board.reset_board leaving the second player to move.
reset_board_turn_kept == [grid |-> EmptyGrid, turn |-> 1, filled |-> 0]

\* Board.reset_board, as the fields it assigns.
reset_board == [grid |-> EmptyGrid, turn |-> 0, filled |-> 0]

\* Board.move on the board <<g, t, f, pl>> at pos = <<row, col>>: the fields
\* after the call, the exception it raised ("none" when it returned) and the
\* mark its message names ("" when it raised no Win).
move(g, t, f, pl, pos) ==
    IF ~InIndexRange(pos[1]) \/ ~InIndexRange(pos[2])
    THEN [grid |-> g, turn |-> t, filled |-> f, raised |-> "IndexError",
          who |-> ""]
    ELSE LET g2 == [g EXCEPT ![ListIndex(pos[1])][ListIndex(pos[2])] = pl[t + 1]]
             f2 == increment(f)
         IN  IF f2 >= WinCheckFrom /\ check_win(g2, pos)
             THEN [grid |-> g2, turn |-> t, filled |-> f2, raised |-> "Win",
                   who |-> pl[t + 1]]
             ELSE IF f2 = FullCount
             THEN [grid |-> g2, turn |-> t, filled |-> f2, raised |-> "GameOver",
                   who |-> ""]
             ELSE [grid |-> g2, turn |-> NextTurn(t), filled |-> f2,
                   raised |-> "none", who |-> ""]

----------------------------------------------------------------------------
(* TicTacToe: the session. *)

ALLOWED_POSITIONS ==
    (<<"1">> :> <<0, 0>>) @@ (<<"2">> :> <<0, 1>>) @@ (<<"3">> :> <<0, 2>>) @@
    (<<"4">> :> <<1, 0>>) @@ (<<"5">> :> <<1, 1>>) @@ (<<"6">> :> <<1, 2>>) @@
    (<<"7">> :> <<2, 0>>) @@ (<<"8">> :> <<2, 1>>) @@ (<<"9">> :> <<2, 2>>)

NoPos == <<>>

\* TicTacToe._validate_move with an unknown selector taken for the first cell.
validate_move_default(g, in_) ==
    LET rc == IF in_ \in DOMAIN ALLOWED_POSITIONS
              THEN ALLOWED_POSITIONS[in_] ELSE <<0, 0>>
    IN  IF g[rc[1]][rc[2]] /= EMPTY
        THEN [raised |-> "Position is occupied", pos |-> rc]
        ELSE [raised |-> "none", pos |-> rc]

\* TicTacToe._validate_move without the test for an occupied cell.
validate_move_any_cell(g, in_) ==
    IF ~(in_ \in DOMAIN ALLOWED_POSITIONS)
    THEN [raised |-> "Position does not exist", pos |-> NoPos]
    ELSE [raised |-> "none", pos |-> ALLOWED_POSITIONS[in_]]

\* TicTacToe._validate_move: the position, or the InvalidPosition it raises.
validate_move(g, in_) ==
    IF ~(in_ \in DOMAIN ALLOWED_POSITIONS)
    THEN [raised |-> "Position does not exist", pos |-> NoPos]
    ELSE LET rc == ALLOWED_POSITIONS[in_]
         IN  IF g[rc[1]][rc[2]] /= EMPTY
             THEN [raised |-> "Position is occupied", pos |-> rc]
             ELSE [raised |-> "none", pos |-> rc]

\* main handling Forfeit as it handles Win / GameOver.
after_forfeit_as_game_over == "replay"

\* main's handler of Forfeit: _query_replay(rematch=True).
after_forfeit == "rematch"

\* _query_replay declining on 'n' only.
declines_no_only == {NO}

\* The answers on which _query_replay returns False.
declines == {NO, QUIT}

\* main's handler of Win / GameOver going on with the inner loop.
after_play_again_continue == "move"

\* main after _query_replay() returned True for "Play again?": break, to the
\* outer loop and _get_players.
after_play_again == "mark"

\* What the last step did: the prompt (or "call" for a direct call), the
\* outcome, the position handed to Board.move or rejected as occupied, the
\* text as typed, and the mark a Win names.
Event(at, kind, pos, raw, who) ==
    [at |-> at, kind |-> kind, pos |-> pos, raw |-> raw, who |-> who]

Init ==
    /\ grid = EmptyGrid
    /\ turn = 0
    /\ filled = 0
    /\ bplayers = <<>>
    /\ players = <<>>
    /\ pc = "mark"
    /\ ev = Event("start", "start", NoPos, <<>>, "")
    /\ nmoves = 0
    /\ terminal = FALSE

\* One pass of the loop of TicTacToe._get_players; after the second mark,
\* main creates the Board (Board.__init__) and goes to the move prompt.
GetPlayers ==
    /\ pc = "mark"
    /\ \E raw \in MarkTexts :
        IF raw = QUIT
        THEN /\ pc' = "exit"
             /\ ev' = Event("mark", "quit", NoPos, raw, "")
             /\ UNCHANGED <<grid, turn, filled, bplayers, players, nmoves,
                            terminal>>
        ELSE IF Len(raw) /= 1
        THEN /\ ev' = Event("mark", "mark_rejected", NoPos, raw, "")
             /\ UNCHANGED <<grid, turn, filled, bplayers, players, pc, nmoves,
                            terminal>>
        ELSE IF Len(players) + 1 < 2
        THEN /\ players' = Append(players, raw[1])
             /\ ev' = Event("mark", "mark", NoPos, raw, "")
             /\ UNCHANGED <<grid, turn, filled, bplayers, pc, nmoves, terminal>>
        ELSE /\ players' = <<>>
             /\ bplayers' = Append(players, raw[1])
             /\ grid' = reset_board.grid
             /\ turn' = reset_board.turn
             /\ filled' = reset_board.filled
             /\ pc' = "move"
             /\ ev' = Event("mark", "board_created", NoPos, raw, "")
             /\ nmoves' = 0
             /\ terminal' = FALSE

\* One pass of the loop of TicTacToe._get_player_move, followed, when it
\* returns a position, by main's call of Board.move and main's handlers.
GetPlayerMove ==
    /\ pc = "move"
    /\ \E raw \in MoveTexts :
        LET in_ == Normalize(raw)
            v == validate_move(grid, in_)
            m == move(grid, turn, filled, bplayers, v.pos)
        IN  IF in_ = QUIT
            THEN /\ pc' = "exit"
                 /\ ev' = Event("move", "quit", NoPos, raw, "")
                 /\ UNCHANGED <<grid, turn, filled, bplayers, players, nmoves,
                                terminal>>
            ELSE IF in_ = FF
            THEN /\ pc' = after_forfeit
                 /\ ev' = Event("move", "forfeit", NoPos, raw, "")
                 /\ UNCHANGED <<grid, turn, filled, bplayers, players, nmoves,
                                terminal>>
            ELSE IF v.raised /= "none"
            THEN /\ ev' = Event("move", v.raised, v.pos, raw, "")
                 /\ UNCHANGED <<grid, turn, filled, bplayers, players, pc,
                                nmoves, terminal>>
            ELSE /\ grid' = m.grid
                 /\ turn' = m.turn
                 /\ filled' = m.filled
                 /\ pc' = IF m.raised = "none" THEN "move" ELSE "replay"
                 /\ ev' = Event("move",
                                IF m.raised = "none" THEN "moved" ELSE m.raised,
                                v.pos, raw, m.who)
                 /\ nmoves' = nmoves + 1
                 /\ terminal' = (m.raised /= "none")
                 /\ UNCHANGED <<bplayers, players>>

\* One pass of the loop of TicTacToe._query_replay, and what main does with
\* its result: rematch is True after a forfeit, False after Win / GameOver.
QueryReplay ==
    /\ pc \in {"replay", "rematch"}
    /\ \E raw \in ReplayTexts :
        LET play_again == Normalize(raw)
            rematch == (pc = "rematch")
        IN  IF play_again = YES
            THEN IF rematch
                 THEN /\ grid' = reset_board.grid
                      /\ turn' = reset_board.turn
                      /\ filled' = reset_board.filled
                      /\ pc' = "move"
                      /\ ev' = Event(pc, "yes", NoPos, raw, "")
                      /\ nmoves' = 0
                      /\ terminal' = FALSE
                      /\ UNCHANGED <<bplayers, players>>
                 ELSE /\ pc' = after_play_again
                      /\ ev' = Event(pc, "yes", NoPos, raw, "")
                      /\ UNCHANGED <<grid, turn, filled, bplayers, players,
                                     nmoves, terminal>>
            ELSE IF play_again \in declines
            THEN /\ pc' = "exit"
                 /\ ev' = Event(pc, "declined", NoPos, raw, "")
                 /\ UNCHANGED <<grid, turn, filled, bplayers, players, nmoves,
                                terminal>>
            ELSE /\ ev' = Event(pc, "asked_again", NoPos, raw, "")
                 /\ UNCHANGED <<grid, turn, filled, bplayers, players, pc,
                                nmoves, terminal>>

Next == GetPlayers \/ GetPlayerMove \/ QueryReplay

Spec == Init /\ [][Next]_vars

----------------------------------------------------------------------------
(* Board called directly, without the session's validation. *)

Coords == -1..MaxCoord

InitBoard ==
    /\ grid = reset_board.grid
    /\ turn = reset_board.turn
    /\ filled = reset_board.filled
    /\ bplayers = <<"X", "O">>
    /\ players = <<>>
    /\ pc = "call"
    /\ ev = Event("call", "board_created", NoPos, <<>>, "")
    /\ nmoves = 0
    /\ terminal = FALSE

\* A call of Board.move with any pair of integers.
BoardMove ==
    /\ pc = "call"
    /\ filled < MaxFilled
    /\ \E pos \in Coords \X Coords :
        LET m == move(grid, turn, filled, bplayers, pos)
        IN  /\ grid' = m.grid
            /\ turn' = m.turn
            /\ filled' = m.filled
            /\ ev' = Event("call",
                           IF m.raised = "none" THEN "moved" ELSE m.raised,
                           pos, <<>>, m.who)
            /\ nmoves' = IF m.raised = "IndexError" THEN nmoves ELSE nmoves + 1
            /\ terminal' = (terminal \/ m.raised \in {"Win", "GameOver"})
            /\ UNCHANGED <<bplayers, players, pc>>

\* A call of Board.reset_board.
BoardReset ==
    /\ pc = "call"
    /\ grid' = reset_board.grid
    /\ turn' = reset_board.turn
    /\ filled' = reset_board.filled
    /\ ev' = Event("call", "reset", NoPos, <<>>, "")
    /\ nmoves' = 0
    /\ terminal' = FALSE
    /\ UNCHANGED <<bplayers, players, pc>>

NextBoard == BoardMove \/ BoardReset

SpecBoard == InitBoard /\ [][NextBoard]_vars

----------------------------------------------------------------------------
(* Vocabulary of the properties. *)

\* The game is played with two distinct marks, neither the blank.
DistinctNonBlank ==
    /\ Len(bplayers) = 2
    /\ bplayers[1] /= bplayers[2]
    /\ bplayers[1] /= EMPTY
    /\ bplayers[2] /= EMPTY

\* All three cells of the axis hold the mark m.
AxisOf(g, axis, m) == \A x \in axis : Cell(g, x) = m

\* Some row, column or diagonal holds three identical marks.
SomeLine(g) ==
    \E axis \in _AXES : \E x \in axis :
        Cell(g, x) /= EMPTY /\ AxisOf(g, axis, Cell(g, x))

\* Some row, column or diagonal through pos holds three identical marks.
LineThrough(g, pos) ==
    \E axis \in _AXES :
        pos \in axis /\ Cell(g, pos) /= EMPTY /\ AxisOf(g, axis, Cell(g, pos))

NonEmptyCells(g) == {x \in Positions : Cell(g, x) /= EMPTY}

\* The outcomes of a call of Board.move that wrote to the grid.
MoveKinds == {"moved", "Win", "GameOver"}

\* The last step was a call of Board.move that wrote to the grid.
Moved == ev.kind \in MoveKinds

\* The selector '1'..'9' as a number, and its row-major position.
SelectorNumber ==
    (<<"1">> :> 1) @@ (<<"2">> :> 2) @@ (<<"3">> :> 3) @@ (<<"4">> :> 4) @@
    (<<"5">> :> 5) @@ (<<"6">> :> 6) @@ (<<"7">> :> 7) @@ (<<"8">> :> 8) @@
    (<<"9">> :> 9)

Selectors == DOMAIN SelectorNumber

RowMajor(sel) ==
    <<(SelectorNumber[sel] - 1) \div 3, (SelectorNumber[sel] - 1) % 3>>

----------------------------------------------------------------------------
(* Properties. *)

\* C1. Win completeness: with two distinct, non-blank marks, a move that
\* leaves a row, column or diagonal with three identical marks ends the game
\* with Win: no state in which the game continues, and no state reached by a
\* move that returned or raised GameOver, has a line of three identical marks.
C1_WinCompleteness ==
    DistinctNonBlank =>
        /\ ~terminal => ~SomeLine(grid)
        /\ (Moved /\ ev.kind /= "Win") => ~SomeLine(grid)

\* C1 witness: the fifth move completes a line and raises Win.
C1_Witness ==
    /\ DistinctNonBlank
    /\ ev.kind = "Win"
    /\ nmoves = 5
    /\ SomeLine(grid)

\* C2. Win soundness: a Win is raised only by a move after which some axis
\* through the position just played holds three marks of the player who
\* moved (players[turn] before the move), and it names that mark.
C2_WinSoundness ==
    [][ev'.kind = "Win" =>
        LET mover == bplayers[turn + 1]
        IN  /\ nmoves' = nmoves + 1
            /\ ev'.who = mover
            /\ \E axis \in _AXES :
                 ev'.pos \in axis /\ AxisOf(grid', axis, mover)]_vars

\* C2 witness: the second player wins, with both marks on the board.
C2_Witness ==
    /\ DistinctNonBlank
    /\ ev.kind = "Win"
    /\ turn = 1
    /\ ev.who = bplayers[2]
    /\ \E axis \in _AXES : AxisOf(grid, axis, bplayers[2])

\* C3. Draw: with two distinct, non-blank marks, a move yields GameOver if
\* and only if after it all nine cells hold a mark and it completed no line of
\* three identical marks; a ninth move that completes a line yields Win, and
\* no move before the ninth yields GameOver.
C3_Draw ==
    (DistinctNonBlank /\ Moved) =>
        /\ (ev.kind = "GameOver") <=>
              (NonEmptyCells(grid) = Positions /\ ~LineThrough(grid, ev.pos))
        /\ (nmoves = 9 /\ LineThrough(grid, ev.pos)) => ev.kind = "Win"
        /\ ev.kind = "GameOver" => nmoves = 9

\* C3 witness: the ninth move fills the grid without a line.
C3_Witness ==
    /\ DistinctNonBlank
    /\ ev.kind = "GameOver"
    /\ nmoves = 9
    /\ ~SomeLine(grid)

\* A cell known to have been played on since the last reset: it holds a mark,
\* or it is the cell of the move just made.
PlayedOn(x) == Cell(grid, x) /= EMPTY \/ (Moved /\ ev.pos = x)

\* C4. Occupied-cell rejection in the session: a move request whose selector
\* maps to a cell on which a move has been played since the last reset is
\* rejected with 'Position is occupied', Board.move is not called for it, and
\* grid, filled count and turn index are unchanged.
C4_OccupiedRejected ==
    [][(pc = "move" /\ ev'.at = "move" /\ ev'.pos /= NoPos /\ PlayedOn(ev'.pos))
        => /\ ev'.kind = "Position is occupied"
           /\ UNCHANGED <<grid, filled, turn, nmoves>>]_vars

\* The position does not name an empty cell of the grid.
IllegalPos(g, pos) ==
    IF pos[1] \in Idx /\ pos[2] \in Idx THEN Cell(g, pos) /= EMPTY ELSE TRUE

\* C5. Board.move is all-or-nothing: called with a component outside
\* {0,1,2}, or on a cell that is not empty, it fails and leaves grid, filled
\* count and turn index as they were.
C5_AllOrNothing ==
    [][(ev'.at = "call" /\ ev'.pos /= NoPos /\ IllegalPos(grid, ev'.pos))
        => /\ ev'.kind \notin MoveKinds
           /\ UNCHANGED <<grid, filled, turn>>]_vars

\* C6, as stated: any text typed at the move prompt that is not one of
\* '1'..'9', 'quit' or 'ff' is rejected with 'Position does not exist'.
C6_AnyOtherTextRejected ==
    (ev.at = "move" /\ ev.raw \notin Selectors \cup {QUIT, FF})
        => ev.kind = "Position does not exist"

\* C6, amended. Unmapped input rejection: any text typed at the move prompt
\* that, lower-cased and stripped of surrounding whitespace, is not one of
\* '1'..'9', 'quit' or 'ff' is rejected with 'Position does not exist',
\* without a call of Board.move, leaving grid, filled count and turn index
\* unchanged and the same player at the prompt; and Board.move is only called
\* with the row-major position of a selector, both components in {0,1,2}.
C6_UnmappedRejected ==
    [][ev'.at = "move" =>
        LET in_ == Normalize(ev'.raw)
        IN  /\ in_ \notin Selectors \cup {QUIT, FF}
                => /\ ev'.kind = "Position does not exist"
                   /\ UNCHANGED <<grid, filled, turn, nmoves, pc>>
            /\ nmoves' /= nmoves
                => /\ in_ \in Selectors
                   /\ ev'.pos = RowMajor(in_)
                   /\ ev'.pos \in Positions]_vars

\* C6 witness: during a game with the centre cell taken, '0' was rejected.
C6_Witness ==
    /\ ev.kind = "Position does not exist"
    /\ ev.raw = <<"0">>
    /\ Cell(grid, <<1, 1>>) /= EMPTY
    /\ pc = "move"

\* C7. Turn order: the k-th move since creation or reset writes the mark of
\* player (k-1) mod 2; the turn index flips on every move after which the
\* game continues, is kept by a move that raises Win or GameOver, and is kept
\* by every move request that is rejected.
C7_TurnOrder ==
    [][ev'.at = "move" =>
        /\ turn \in {0, 1} /\ turn' \in {0, 1}
        /\ nmoves' = nmoves + 1
            => /\ Cell(grid', ev'.pos) = bplayers[(nmoves % 2) + 1]
               /\ ev'.kind = "moved" => turn' = 1 - turn
               /\ ev'.kind \in {"Win", "GameOver"} => turn' = turn
        /\ nmoves' = nmoves => turn' = turn]_vars

\* C7 witness: after the third move it is the second player's turn.
C7_Witness ==
    /\ DistinctNonBlank
    /\ ev.kind = "moved"
    /\ nmoves = 3
    /\ turn = 1
    /\ Cell(grid, ev.pos) = bplayers[1]

\* C8. Count/grid agreement: the filled count equals the number of cells
\* that are not empty.
C8_CountMatchesGrid == filled = Cardinality(NonEmptyCells(grid))

\* C9. Count bound: the filled count equals the number of moves made since
\* creation or reset, and is between 0 and 9.
C9_CountBound == filled = nmoves /\ filled \in 0..9

\* C9 witness: nine moves were made in a game with a blank mark.
C9_Witness ==
    /\ Len(bplayers) = 2
    /\ bplayers[1] = EMPTY
    /\ nmoves = 9
    /\ filled = 9

\* C10. Terminal states are terminal: once Board.move has raised Win or
\* GameOver, the board is left as it is, with no call of Board.move, until
\* the session ends or a freshly created, empty board replaces it.
C10_TerminalIsFinal ==
    [][terminal =>
        \/ /\ UNCHANGED <<grid, turn, filled, bplayers, nmoves, terminal>>
           /\ pc' \in {"replay", "mark", "exit"}
        \/ /\ ~terminal'
           /\ ev'.kind = "board_created"
           /\ grid' = EmptyGrid /\ filled' = 0 /\ turn' = 0 /\ nmoves' = 0
           /\ pc' = "move"]_vars

\* C10 witness: after a Win, playing again was accepted and the first mark of
\* the next game entered, the finished board still being the session's board.
C10_Witness ==
    /\ terminal
    /\ ev.kind = "mark"
    /\ pc = "mark"
    /\ Len(players) = 1
    /\ SomeLine(grid)

\* The marks that hold some row, column or diagonal of the whole grid.
LineMarks(g) ==
    {m \in {Cell(g, x) : x \in Positions} \ {EMPTY} :
        \E axis \in _AXES : AxisOf(g, axis, m)}

\* The reference evaluator: all eight lines of the whole grid, then the
\* number of marked cells.
BruteForce(g) ==
    IF LineMarks(g) /= {}
    THEN [kind |-> "Win", who |-> LineMarks(g)]
    ELSE IF NonEmptyCells(g) = Positions
    THEN [kind |-> "GameOver", who |-> {}]
    ELSE [kind |-> "moved", who |-> {}]

\* C11. Equivalence with a brute-force evaluator: with two distinct,
\* non-blank marks, the outcome of every move (Continue, Win of a mark,
\* GameOver) is the outcome of scanning all eight lines of the whole grid
\* after the move.
C11_BruteForceEquivalence ==
    (DistinctNonBlank /\ Moved) =>
        /\ BruteForce(grid).kind = ev.kind
        /\ BruteForce(grid).who = (IF ev.kind = "Win" THEN {ev.who} ELSE {})

\* C11 witness: the ninth move completes a line, so that the grid is full and
\* the outcome is Win.
C11_Witness ==
    /\ DistinctNonBlank
    /\ ev.kind = "Win"
    /\ nmoves = 9
    /\ NonEmptyCells(grid) = Positions
    /\ BruteForce(grid).who = {bplayers[1]}

\* C12. Marks supplied to a game: every Board the session creates has exactly
\* two marks, and the two are distinct from each other.
C12_TwoDistinctMarks ==
    bplayers /= <<>> => Len(bplayers) = 2 /\ bplayers[1] /= bplayers[2]

\* C13. No win before the fifth move: while fewer than five moves have been
\* made since the board was created or reset, no row, column or diagonal holds
\* three identical marks.
C13_NoLineBeforeFifth == nmoves < 5 => ~SomeLine(grid)

\* The step starts a game: a Board is created, or a rematch resets it.
StartsGame ==
    ev'.kind = "board_created" \/ (ev'.at = "rematch" /\ ev'.kind = "yes")

\* C14. Reset: reset_board, called by Board.__init__ and by an accepted
\* rematch, leaves every cell empty, the filled count 0 and the turn index 0,
\* whatever the board was before; every game starts on an empty board with
\* player index 0 at the move prompt.
C14_Reset ==
    [][/\ StartsGame
           => /\ grid' = EmptyGrid /\ filled' = 0 /\ turn' = 0
              /\ nmoves' = 0 /\ ~terminal' /\ pc' = "move"
       /\ (pc' = "move" /\ pc /= "move") => StartsGame]_vars

\* C14 witness: a rematch was accepted.
C14_Witness ==
    /\ ev.at = "rematch"
    /\ ev.kind = "yes"
    /\ grid = EmptyGrid
    /\ filled = 0
    /\ turn = 0

\* C15. Forfeit: 'ff' at the move prompt ends the game without a call of
\* Board.move and without changing grid, filled count or turn index; an
\* accepted rematch resets the board in place, with the same two marks, and
\* play continues on it; a declined rematch ends the session; no move is
\* applied to the forfeited position.
C15_Forfeit ==
    [][/\ (ev'.at = "move" /\ Normalize(ev'.raw) = FF)
           => /\ ev'.kind = "forfeit"
              /\ pc' = "rematch"
              /\ UNCHANGED <<grid, filled, turn, nmoves, bplayers>>
       /\ pc = "rematch"
           => \/ /\ pc' \in {"rematch", "exit"}
                 /\ UNCHANGED <<grid, filled, turn, nmoves, bplayers>>
              \/ /\ Normalize(ev'.raw) = YES
                 /\ pc' = "move"
                 /\ grid' = EmptyGrid /\ filled' = 0 /\ turn' = 0 /\ nmoves' = 0
                 /\ bplayers' = bplayers]_vars

\* C15 witness: a game was forfeited after three moves.
C15_Witness ==
    /\ ev.kind = "forfeit"
    /\ pc = "rematch"
    /\ nmoves = 3

\* C16. Quit at any point: 'quit' typed at the mark, move, play-again or
\* rematch prompt ends the session in that step, without a move, and the
\* session takes no step after it has ended.
C16_Quit ==
    [][/\ pc /= "exit"
       /\ ev'.raw = QUIT
           => /\ pc' = "exit"
              /\ UNCHANGED <<grid, filled, turn, nmoves, bplayers>>]_vars

\* C16 witness: 'quit' was typed at the play-again prompt after a finished game.
C16_Witness ==
    /\ pc = "exit"
    /\ ev.at = "replay"
    /\ ev.raw = QUIT
    /\ terminal

\* The step is a call of Board.move by the session that wrote to the grid.
MoveStep == pc = "move" /\ ev'.kind \in MoveKinds

\* C17. Frame of a successful move: in a game with two distinct non-blank
\* marks, a successful Board.move changes exactly one cell, from empty to the
\* mark of the player whose turn it was, and leaves the other eight cells and
\* the pair of marks unchanged; a filled cell keeps its mark until the board
\* is reset or replaced.
C17_MoveFrame ==
    [][DistinctNonBlank
           => /\ MoveStep
                  => /\ ev'.pos \in Positions
                     /\ Cell(grid, ev'.pos) = EMPTY
                     /\ Cell(grid', ev'.pos) = bplayers[turn + 1]
                     /\ \A x \in Positions \ {ev'.pos} :
                            Cell(grid', x) = Cell(grid, x)
                     /\ bplayers' = bplayers
              /\ ~StartsGame
                  => \A x \in NonEmptyCells(grid) :
                         Cell(grid', x) = Cell(grid, x)]_vars

\* C17 witness: the second player has just filled a sixth cell.
C17_Witness ==
    /\ DistinctNonBlank
    /\ ev.kind = "moved"
    /\ nmoves = 6
    /\ Cell(grid, ev.pos) = bplayers[2]
    /\ Cardinality(NonEmptyCells(grid)) = 6

\* The number of cells of g that hold the mark m.
CountOf(g, m) == Cardinality({x \in Positions : Cell(g, x) = m})

\* Cells of the first player's mark minus cells of the second player's mark.
Balance == CountOf(grid, bplayers[1]) - CountOf(grid, bplayers[2])

\* C18. Mark balance: in a game with two distinct non-blank marks, the number
\* of cells of player 1's mark minus the number of cells of player 2's mark is
\* 0 or 1, and while the game continues it equals the turn index.
C18_MarkBalance ==
    DistinctNonBlank
        => /\ Balance \in {0, 1}
           /\ ~terminal => Balance = turn

\* C18 witness: a game has ended on a full grid with the first player's fifth
\* mark, the turn index still 0.
C18_Witness ==
    /\ DistinctNonBlank
    /\ terminal
    /\ nmoves = 9
    /\ Balance = 1
    /\ turn = 0

====
